---- MODULE Spec2Model ----
(***************************************************************************)
(* Model of diophantine.py: gcd (Euclidean reduction with quotient list),  *)
(* lincomb (Bezout coefficients) and diophantine (bounded solutions of     *)
(* s*d + t*v = w).                                                         *)
(*                                                                         *)
(* One behaviour is one call of one entry point.  The recursion of gcd is  *)
(* modelled frame by frame when gcd is the entry point; lincomb and        *)
(* diophantine are applied in one step and use the same frame function.    *)
(*                                                                         *)
(* Exceptions: ValueError("v must be strictly positive") is the status     *)
(* "InvalidDivisor", ValueError("p must be less than q") is "InvalidRange",*)
(* Python's ZeroDivisionError is "ZeroDivisionError".                      *)
(*                                                                         *)
(* Python's int/int is a correctly rounded double.  For numerators of      *)
(* magnitude below 2^53 ceil and floor of that double equal ceil and floor *)
(* of the exact quotient, which is what ceil_div and floor_div compute.    *)
(* Every integer the model checker can represent is below 2^31, so the     *)
(* rounding of larger numerators is outside what this model covers.        *)
(***************************************************************************)
EXTENDS Integers, Sequences, FiniteSets

\* Bounds of the inputs.
MaxD == 5
MaxV == 5
MaxW == 3
MaxP == 3

VARIABLES fn, d, v, w, p, q, v_constraint, pc, cur_d, cur_v, cur_qs, depth, result

vars == <<fn, d, v, w, p, q, v_constraint, pc, cur_d, cur_v, cur_qs, depth, result>>

Abs(x) == IF x < 0 THEN -x ELSE x

\* ---------------------------------------------------------------------
\* Values returned or raised by a call.
NoResult ==
    [status |-> "none", g |-> 0, qs |-> <<>>, a |-> 0, b |-> 0,
     sols |-> <<>>, derived |-> FALSE, lower |-> 0, upper |-> 0]

Raise(e) == [NoResult EXCEPT !.status = e]

\* Variant of divmod: quotient truncated toward zero, remainder with the
\* sign of x.
divmod_trunc(x, y) ==
    IF x >= 0
    THEN <<x \div y, x % y>>
    ELSE <<-((-x) \div y), -((-x) % y)>>

\* divmod(x, y) for y > 0: floor quotient, remainder in 0..y-1.
divmod(x, y) == <<x \div y, x % y>>

\* floor(x / y), y # 0 of either sign.
floor_div(x, y) == IF y > 0 THEN x \div y ELSE (-x) \div (-y)

\* Variant of ceil_div: rounds down.
ceil_div_floor(x, y) == floor_div(x, y)

\* ceil(x / y), y # 0 of either sign.
ceil_div(x, y) == -floor_div(-x, y)

\* ---------------------------------------------------------------------
\* Variant of gcdFrame: the quotient is appended before the test r == 0.
gcdFrame_append_first(dd, vv, qs) ==
    IF vv <= 0
    THEN [kind |-> "raise", d |-> dd, v |-> vv, qs |-> qs]
    ELSE LET qq == divmod(dd, vv)[1]
             r  == divmod(dd, vv)[2]
         IN  IF r = 0
             THEN [kind |-> "return", d |-> dd, v |-> vv, qs |-> Append(qs, qq)]
             ELSE [kind |-> "recurse", d |-> vv, v |-> r, qs |-> Append(qs, qq)]

\* gcd: one invocation (lines 23-29), either raising, returning or
\* recursing on (v, r) with the quotient appended.
gcdFrame(dd, vv, qs) ==
    IF vv <= 0
    THEN [kind |-> "raise", d |-> dd, v |-> vv, qs |-> qs]
    ELSE LET qq == divmod(dd, vv)[1]
             r  == divmod(dd, vv)[2]
         IN  IF r = 0
             THEN [kind |-> "return", d |-> dd, v |-> vv, qs |-> qs]
             ELSE [kind |-> "recurse", d |-> vv, v |-> r, qs |-> Append(qs, qq)]

RECURSIVE gcd(_, _, _)
gcd(dd, vv, qs) ==
    LET f == gcdFrame(dd, vv, qs)
    IN  CASE f.kind = "raise"   -> Raise("InvalidDivisor")
          [] f.kind = "return"  -> [NoResult EXCEPT !.status = "ok", !.g = f.v, !.qs = f.qs]
          [] f.kind = "recurse" -> gcd(f.d, f.v, f.qs)

\* ---------------------------------------------------------------------
\* lincomb: the loop "for i, q in enumerate(qs[1:])" appending
\* xs[i] - q*xs[i+1] (0-based), here with 1-based sequences.
RECURSIVE extend(_, _, _)
extend(xs, qs, i) ==
    IF i + 2 > Len(qs)
    THEN xs
    ELSE extend(Append(xs, xs[i + 1] - qs[i + 2] * xs[i + 2]), qs, i + 1)

\* Variant of lincomb: bb seeded with [1, qs[0]].
lincomb_badseed(dd, vv) ==
    LET r == gcd(dd, vv, <<>>)
    IN  IF r.status # "ok"
        THEN r
        ELSE IF Len(r.qs) = 0
        THEN [NoResult EXCEPT !.status = "ok", !.g = r.g, !.a = 0, !.b = 1]
        ELSE LET aa == extend(<<0, 1>>, r.qs, 0)
                 bb == extend(<<1, r.qs[1]>>, r.qs, 0)
             IN  [NoResult EXCEPT !.status = "ok", !.g = r.g,
                                  !.a = aa[Len(aa)], !.b = bb[Len(bb)]]

lincomb(dd, vv) ==
    LET r == gcd(dd, vv, <<>>)
    IN  IF r.status # "ok"
        THEN r
        ELSE IF Len(r.qs) = 0
        THEN [NoResult EXCEPT !.status = "ok", !.g = r.g, !.a = 0, !.b = 1]
        ELSE LET aa == extend(<<0, 1>>, r.qs, 0)
                 bb == extend(<<1, -r.qs[1]>>, r.qs, 0)
             IN  [NoResult EXCEPT !.status = "ok", !.g = r.g,
                                  !.a = aa[Len(aa)], !.b = bb[Len(bb)]]

\* ---------------------------------------------------------------------
\* diophantine
\* Variant of solutions: range(lower, upper).
solutions_short(m, a, b, dd, vv, lower, upper) ==
    [i \in 1..(upper - lower) |->
        <<m * a + (lower + i - 1) * vv, m * b - (lower + i - 1) * dd>>]

\* Lines 78-79: one pair per n in range(lower, upper + 1).
solutions(m, a, b, dd, vv, lower, upper) ==
    [i \in 1..(upper - lower + 1) |->
        <<m * a + (lower + i - 1) * vv, m * b - (lower + i - 1) * dd>>]

ranged(m, a, b, dd, vv, lower, upper) ==
    [NoResult EXCEPT !.status = "ok", !.derived = TRUE,
                     !.lower = lower, !.upper = upper,
                     !.sols = solutions(m, a, b, dd, vv, lower, upper)]

\* Lines 68-80: the interval of n and the pairs, from m and the pair (a, b).
\* With v_constraint and d = 0 the division (m*b-p)/d raises.
enumerate(dd, vv, pp, qq, vc, m, a, b) ==
    IF ~vc
    THEN ranged(m, a, b, dd, vv,
                ceil_div(pp - m * a, vv), floor_div(qq - m * a, vv))
    ELSE IF dd > 0
    THEN ranged(m, a, b, dd, vv,
                ceil_div(m * b - qq, dd), floor_div(m * b - pp, dd))
    ELSE IF dd = 0
    THEN Raise("ZeroDivisionError")
    ELSE ranged(m, a, b, dd, vv,
                ceil_div(m * b - pp, dd), floor_div(m * b - qq, dd))

\* Variant of solve: the remainder of w by the gcd is not tested.
solve_unchecked(dd, vv, ww, pp, qq, vc) ==
    LET r0 == gcd(dd, vv, <<>>)
    IN  IF r0.status # "ok"
        THEN r0
        ELSE LET m  == divmod(ww, r0.g)[1]
                 lc == lincomb(dd, vv)
             IN  enumerate(dd, vv, pp, qq, vc, m, lc.a, lc.b)

\* Lines 62-80: everything after the range check.
solve(dd, vv, ww, pp, qq, vc) ==
    LET r0 == gcd(dd, vv, <<>>)
    IN  IF r0.status # "ok"
        THEN r0
        ELSE LET m == divmod(ww, r0.g)[1]
                 r == divmod(ww, r0.g)[2]
             IN  IF r # 0
                 THEN [NoResult EXCEPT !.status = "ok"]
                 ELSE LET lc == lincomb(dd, vv)
                      IN  enumerate(dd, vv, pp, qq, vc, m, lc.a, lc.b)

\* Variant of diophantine: gcd is called before the range is tested.
diophantine_gcd_first(dd, vv, ww, pp, qq, vc) ==
    IF gcd(dd, vv, <<>>).status # "ok"
    THEN gcd(dd, vv, <<>>)
    ELSE IF pp >= qq
    THEN Raise("InvalidRange")
    ELSE solve(dd, vv, ww, pp, qq, vc)

\* Variant of diophantine: the range test is p > q.
diophantine_strict(dd, vv, ww, pp, qq, vc) ==
    IF pp > qq
    THEN Raise("InvalidRange")
    ELSE solve(dd, vv, ww, pp, qq, vc)

diophantine(dd, vv, ww, pp, qq, vc) ==
    IF pp >= qq
    THEN Raise("InvalidRange")
    ELSE solve(dd, vv, ww, pp, qq, vc)

\* ---------------------------------------------------------------------
\* The state machine: one call of one entry point.
Init ==
    /\ fn \in {"gcd", "lincomb", "diophantine"}
    /\ d \in -MaxD..MaxD
    /\ v \in -1..MaxV
    /\ IF fn = "diophantine"
       THEN /\ w \in -MaxW..MaxW
            /\ p \in -MaxP..MaxP
            /\ q \in -MaxP..MaxP
            /\ v_constraint \in BOOLEAN
       ELSE /\ w = 0
            /\ p = 0
            /\ q = 0
            /\ v_constraint = FALSE
    /\ pc = "start"
    /\ cur_d = 0
    /\ cur_v = 0
    /\ cur_qs = <<>>
    /\ depth = 0
    /\ result = NoResult

Inputs == <<fn, d, v, w, p, q, v_constraint>>

\* The caller invokes gcd(d, v, []).
GcdEnter ==
    /\ pc = "start"
    /\ fn = "gcd"
    /\ pc' = "gcd"
    /\ cur_d' = d
    /\ cur_v' = v
    /\ cur_qs' = <<>>
    /\ depth' = 1
    /\ UNCHANGED <<Inputs, result>>

\* Lines 23-24: the current invocation raises.
GcdRaise ==
    /\ pc = "gcd"
    /\ gcdFrame(cur_d, cur_v, cur_qs).kind = "raise"
    /\ result' = Raise("InvalidDivisor")
    /\ pc' = "done"
    /\ UNCHANGED <<Inputs, cur_d, cur_v, cur_qs, depth>>

\* Lines 26-27: the current invocation returns v and the quotients.
GcdReturn ==
    /\ pc = "gcd"
    /\ gcdFrame(cur_d, cur_v, cur_qs).kind = "return"
    /\ result' = [NoResult EXCEPT !.status = "ok",
                                 !.g = gcdFrame(cur_d, cur_v, cur_qs).v,
                                 !.qs = gcdFrame(cur_d, cur_v, cur_qs).qs]
    /\ pc' = "done"
    /\ UNCHANGED <<Inputs, cur_d, cur_v, cur_qs, depth>>

\* Lines 28-29: the current invocation appends q and calls gcd(v, r, qs).
GcdRecurse ==
    /\ pc = "gcd"
    /\ gcdFrame(cur_d, cur_v, cur_qs).kind = "recurse"
    /\ cur_d' = gcdFrame(cur_d, cur_v, cur_qs).d
    /\ cur_v' = gcdFrame(cur_d, cur_v, cur_qs).v
    /\ cur_qs' = gcdFrame(cur_d, cur_v, cur_qs).qs
    /\ depth' = depth + 1
    /\ UNCHANGED <<Inputs, pc, result>>

Lincomb ==
    /\ pc = "start"
    /\ fn = "lincomb"
    /\ result' = lincomb(d, v)
    /\ pc' = "done"
    /\ UNCHANGED <<Inputs, cur_d, cur_v, cur_qs, depth>>

Diophantine ==
    /\ pc = "start"
    /\ fn = "diophantine"
    /\ result' = diophantine(d, v, w, p, q, v_constraint)
    /\ pc' = "done"
    /\ UNCHANGED <<Inputs, cur_d, cur_v, cur_qs, depth>>

Next ==
    \/ GcdEnter
    \/ GcdRaise
    \/ GcdReturn
    \/ GcdRecurse
    \/ Lincomb
    \/ Diophantine

Spec == Init /\ [][Next]_vars

\* Calls of gcd alone; a started call is always carried on.
GcdInit == Init /\ fn = "gcd"

GcdNext ==
    \/ GcdEnter
    \/ GcdRaise
    \/ GcdReturn
    \/ GcdRecurse

GcdFairSpec == GcdInit /\ [][GcdNext]_vars /\ WF_vars(GcdNext)

TypeOK ==
    /\ pc \in {"start", "gcd", "done"}
    /\ result.status \in {"none", "ok", "InvalidDivisor", "InvalidRange", "ZeroDivisionError"}

\* ---------------------------------------------------------------------
\* Properties.

Done(f) == pc = "done" /\ fn = f

Divides(g, x) == x % g = 0

\* Reference gcd of x >= 0 and y > 0: the largest common divisor.
RefGcd(x, y) ==
    CHOOSE g \in 1..y :
        /\ Divides(g, x) /\ Divides(g, y)
        /\ \A h \in 1..y : (Divides(h, x) /\ Divides(h, y)) => h <= g

Pairs(sols) == {sols[i] : i \in 1..Len(sols)}

\* The selected unknown of the pair (s, t) lies in [p, q].
InBound(s, t) == IF v_constraint THEN p <= t /\ t <= q ELSE p <= s /\ s <= q

\* Every pair solving the equation with the selected unknown in [p, q] has
\* both components within Box.
Box == MaxW + MaxP * (MaxD + MaxV)

\* C1: for every d and every v > 0, lincomb(d, v) returns (g, a, b) with
\* a*d + b*v = g, and g is the reference gcd of (|d|, v), so g > 0.
C1_Bezout ==
    (Done("lincomb") /\ v > 0) =>
        /\ result.status = "ok"
        /\ result.a * d + result.b * v = result.g
        /\ result.g = RefGcd(Abs(d), v)
        /\ result.g > 0

C1_Witness ==
    /\ Done("lincomb") /\ d < 0 /\ v > 0
    /\ result.status = "ok" /\ result.g > 1 /\ result.a # 0

\* C2: with v > 0 and p < q, diophantine returns all pairs (s, t) with
\* s*d + t*v = w and the selected unknown in [p, q]: no such pair is missing
\* from a returned sequence.
C2_AllSolutions ==
    (Done("diophantine") /\ v > 0 /\ p < q /\ result.status = "ok") =>
        \A s \in -Box..Box : \A t \in -Box..Box :
            (s * d + t * v = w /\ InBound(s, t)) => <<s, t>> \in Pairs(result.sols)

C4_Original ==
    (pc = "done" /\ v <= 0) => result.status = "InvalidDivisor"

\* C4 amended: whenever v <= 0, gcd and lincomb fail with InvalidDivisor;
\* diophantine fails with InvalidDivisor when p < q and with InvalidRange
\* when p >= q.
C4_Amended ==
    (pc = "done" /\ v <= 0) =>
        result.status = IF fn = "diophantine" /\ p >= q
                        THEN "InvalidRange"
                        ELSE "InvalidDivisor"

C4_Witness ==
    /\ pc = "done" /\ v <= 0 /\ fn = "diophantine" /\ p >= q
    /\ result.status = "InvalidRange"

\* C5: diophantine fails only with InvalidDivisor (v <= 0) or InvalidRange
\* (p >= q); with v > 0 and p < q it returns a sequence.
C5_OnlyTwoFailures ==
    Done("diophantine") =>
        /\ result.status \in {"ok", "InvalidDivisor", "InvalidRange"}
        /\ (v > 0 /\ p < q) => result.status = "ok"

\* C6: diophantine with p >= q fails with InvalidRange for any d, v, w and
\* constraint flag, and returns no pair.
C6_InvalidRange ==
    (Done("diophantine") /\ p >= q) =>
        result.status = "InvalidRange" /\ result.sols = <<>>

C6_Witness ==
    /\ Done("diophantine") /\ p = q /\ v > 0 /\ Divides(v, w)
    /\ result.status = "InvalidRange"

\* C7: if v > 0, p < q and w is not a multiple of gcd(d, v), diophantine
\* returns the empty sequence, for either flag and every d.
C7_NotMultipleEmpty ==
    (Done("diophantine") /\ v > 0 /\ p < q /\ ~Divides(RefGcd(Abs(d), v), w)) =>
        result.status = "ok" /\ result.sols = <<>>

C7_Witness ==
    /\ Done("diophantine") /\ v > 0 /\ p < q /\ d = 0 /\ v_constraint
    /\ ~Divides(RefGcd(Abs(d), v), w)
    /\ result.status = "ok" /\ result.sols = <<>>

\* C8 as stated: for v > 0, gcd(d, v) and gcd(v, d mod v) yield the same
\* gcd.
C8_Original ==
    (Done("gcd") /\ v > 0) =>
        /\ result.status = "ok"
        /\ gcd(v, d % v, <<>>).status = "ok"
        /\ gcd(v, d % v, <<>>).g = result.g

\* C8 amended: for v > 0 with d mod v # 0, gcd(d, v) and gcd(v, d mod v)
\* yield the same gcd; with d mod v = 0, gcd(d, v) returns v and
\* gcd(v, d mod v) fails with InvalidDivisor.
C8_Amended ==
    (Done("gcd") /\ v > 0) =>
        /\ result.status = "ok"
        /\ IF d % v # 0
           THEN /\ gcd(v, d % v, <<>>).status = "ok"
                /\ gcd(v, d % v, <<>>).g = result.g
           ELSE /\ gcd(v, d % v, <<>>).status = "InvalidDivisor"
                /\ result.g = v

C8_Witness ==
    /\ Done("gcd") /\ v > 0 /\ d < 0 /\ d % v # 0
    /\ result.status = "ok" /\ result.g > 1

\* C9: the returned sequence follows increasing n: each entry after the
\* first is the previous one plus (v, -d), s increases strictly, no pair
\* occurs twice, and there are max(0, upper - lower + 1) entries.
C9_Ordered ==
    (Done("diophantine") /\ result.status = "ok") =>
        LET sols == result.sols
        IN  /\ result.derived =>
                Len(sols) = IF result.upper - result.lower + 1 > 0
                            THEN result.upper - result.lower + 1
                            ELSE 0
            /\ ~result.derived => sols = <<>>
            /\ \A i \in 2..Len(sols) :
                /\ sols[i][1] = sols[i - 1][1] + v
                /\ sols[i][2] = sols[i - 1][2] - d
                /\ sols[i][1] > sols[i - 1][1]
            /\ \A i \in 1..Len(sols) : \A j \in 1..Len(sols) :
                i # j => sols[i] # sols[j]

C9_Witness ==
    /\ Done("diophantine") /\ result.status = "ok" /\ v_constraint
    /\ result.derived /\ Len(result.sols) >= 3
    /\ result.upper - result.lower + 1 = Len(result.sols)

\* C10: for v > 0 gcd(d, v) terminates: every recursive call has a new
\* divisor r with 0 < r < the previous divisor, the v <= 0 guard fires only
\* in the caller's first invocation, and the quotient list is empty exactly
\* when v divides d in the first step.
C10_Terminates ==
    /\ [][GcdRecurse => (0 < cur_v' /\ cur_v' < cur_v)]_vars
    /\ [][GcdRaise => (depth = 1 /\ v <= 0)]_vars
    /\ []((Done("gcd") /\ v > 0) =>
            /\ result.status = "ok"
            /\ (result.qs = <<>>) <=> Divides(v, d))
    /\ (fn = "gcd" /\ v > 0) ~> (pc = "done" /\ result.status = "ok")

C10_Witness ==
    /\ Done("gcd") /\ v > 0 /\ depth >= 4
    /\ result.status = "ok" /\ Len(result.qs) = 3

====
